---- MODULE Spec2Model ----
(***************************************************************************)
(* Model of build_site.py: the static review-table generator.             *)
(*                                                                         *)
(* Text is a sequence of characters.  An ASCII character is the one-      *)
(* character string itself; a CJK character is named by its code point    *)
(* ("U3002" is the ideographic full stop).                                 *)
(***************************************************************************)
EXTENDS Integers, Sequences, FiniteSets

VARIABLES
    pc,            \* position of the running function / of main
    text,          \* argument of the text function under study
    out,           \* its return value
    input,         \* review_responses.tsv: its content, or NoFile
    rows,          \* main: rows
    html_content,  \* main: html_content
    docs_dir,      \* whether docs/ exists
    output_file,   \* docs/index.html: its content, or NoFile
    root_index,    \* index.html: its content, or NoFile
    stdout,        \* lines printed
    exit_status,   \* how the process ended
    fs_before      \* history: docs/, docs/index.html and index.html at start

vars == <<pc, text, out, input, rows, html_content, docs_dir, output_file,
          root_index, stdout, exit_status, fs_before>>

(***************************************************************************)
(* Bounds of the model.                                                    *)
(***************************************************************************)
MaxSplitPieces == 6
MaxBulletPieces == 5
MaxEscapePieces == 4
MaxFilePieces == 5
MaxDataLines == 2

(***************************************************************************)
(* Characters and the str methods the program uses.                        *)
(***************************************************************************)
FullStop == "U3002"
marker == <<"U9801", "U78BC", "UFF1A">>
placeholder == <<"U7B2C", "UFF3F", "UFF3F", "UFF3F", "U9801", "U81F3",
                 "U7B2C", "UFF3F", "UFF3F", "UFF3F", "U9801">>

Whitespace == {" ", "\t", "\n", "\r"}
Digit == {"0", "1", "2", "3", "4", "5", "6", "7", "8", "9"}

NoFile == <<"NO_FILE">>
NoResult == "NoResult"

\* The texts made of at most n pieces of P, concatenated.
RECURSIVE Texts(_, _)
Texts(P, n) ==
    IF n = 0 THEN {<<>>}
    ELSE LET shorter == Texts(P, n - 1)
         IN  shorter \cup {t \o p : t \in shorter, p \in P}

RECURSIVE lstrip(_)
lstrip(s) ==
    IF s # <<>> /\ Head(s) \in Whitespace THEN lstrip(Tail(s)) ELSE s

RECURSIVE rstrip(_)
rstrip(s) ==
    IF s # <<>> /\ s[Len(s)] \in Whitespace
    THEN rstrip(SubSeq(s, 1, Len(s) - 1))
    ELSE s

strip(s) == rstrip(lstrip(s))

RECURSIVE rstrip_chars(_, _)
rstrip_chars(s, c) ==
    IF s # <<>> /\ s[Len(s)] = c
    THEN rstrip_chars(SubSeq(s, 1, Len(s) - 1), c)
    ELSE s

StartsAt(s, i, m) ==
    /\ i >= 1
    /\ i + Len(m) - 1 <= Len(s)
    /\ SubSeq(s, i, i + Len(m) - 1) = m

Occurrences(s, m) == {i \in 1..Len(s) : StartsAt(s, i, m)}

contains(s, m) == Occurrences(s, m) # {}

SetMax(S) == CHOOSE x \in S : \A y \in S : y <= x

\* s.rsplit(m, 1) for s containing m: split at the last occurrence.
rsplit(s, m) ==
    LET i == SetMax(Occurrences(s, m))
    IN  <<SubSeq(s, 1, i - 1), SubSeq(s, i + Len(m), Len(s))>>

(***************************************************************************)
(* split_response_and_page                                                 *)
(***************************************************************************)
\* s.split(m, 1): split at the first occurrence, where the code splits at the last
split_first(s, m) ==
    LET i == CHOOSE x \in Occurrences(s, m) : \A y \in Occurrences(s, m) : x <= y
    IN  <<SubSeq(s, 1, i - 1), SubSeq(s, i + Len(m), Len(s))>>

split_at_first_marker(t) ==
    IF ~contains(t, marker)
    THEN <<strip(t), placeholder>>
    ELSE LET parts    == split_first(t, marker)
             response == rstrip_chars(strip(parts[1]), FullStop)
             page     == rstrip_chars(strip(parts[2]), FullStop)
         IN  <<response, IF page = <<>> THEN placeholder ELSE page>>

\* the placeholder left out when the page part is empty
split_without_placeholder(t) ==
    IF ~contains(t, marker)
    THEN <<strip(t), placeholder>>
    ELSE LET parts == rsplit(t, marker)
         IN  <<rstrip_chars(strip(parts[1]), FullStop),
               rstrip_chars(strip(parts[2]), FullStop)>>

split_response_and_page(t) ==
    IF ~contains(t, marker)
    THEN <<strip(t), placeholder>>
    ELSE LET parts    == rsplit(t, marker)
             response == rstrip_chars(strip(parts[1]), FullStop)
             page     == rstrip_chars(strip(parts[2]), FullStop)
         IN  <<response, IF page = <<>> THEN placeholder ELSE page>>

(***************************************************************************)
(* to_bullets.  findall models re.findall of the pattern                   *)
(*   ((?<!\d)\d+\.\s+.*?)(?=(?:(?<!\d)\d+\.\s+)|$)                         *)
(* compiled without flags: "." matches no newline, "$" matches at the end  *)
(* of the text and before a newline that ends it.                          *)
(***************************************************************************)
RECURSIVE SkipWhile(_, _, _)
SkipWhile(s, i, S) ==
    IF i <= Len(s) /\ s[i] \in S THEN SkipWhile(s, i + 1, S) ELSE i

\* (?<!\d) at position i
NotAfterDigit(s, i) == i = 1 \/ s[i - 1] \notin Digit

\* \d+\. at position i: the position after the period, 0 when it does not match
NumberDot(s, i) ==
    LET j == SkipWhile(s, i, Digit)
    IN  IF j > i /\ j <= Len(s) /\ s[j] = "." THEN j + 1 ELSE 0

\* (?<!\d)\d+\.\s+ matches at position i
ClauseMarkerAt(s, i) ==
    /\ i <= Len(s)
    /\ NotAfterDigit(s, i)
    /\ LET d == NumberDot(s, i)
       IN  d # 0 /\ d <= Len(s) /\ s[d] \in Whitespace

\* $ at position e
AtEnd(s, e) == e = Len(s) + 1 \/ (e = Len(s) /\ s[e] = "\n")

\* (?=(?:(?<!\d)\d+\.\s+)|$) at position e
Lookahead(s, e) == ClauseMarkerAt(s, e) \/ AtEnd(s, e)

\* .*? from position e: the first position where the lookahead holds, 0 when
\* a newline or the end of the text comes first
RECURSIVE LazyEnd(_, _)
LazyEnd(s, e) ==
    IF Lookahead(s, e) THEN e
    ELSE IF e <= Len(s) /\ s[e] # "\n" THEN LazyEnd(s, e + 1)
    ELSE 0

\* \s+ is greedy: it ends at k first and gives characters back down to d + 1
RECURSIVE SpaceBacktrack(_, _, _)
SpaceBacktrack(s, k, d) ==
    IF k <= d THEN 0
    ELSE LET e == LazyEnd(s, k)
         IN  IF e # 0 THEN e ELSE SpaceBacktrack(s, k - 1, d)

\* the pattern at position i: the position after the match, 0 when none
MatchEnd(s, i) ==
    IF ~NotAfterDigit(s, i) THEN 0
    ELSE LET d == NumberDot(s, i)
         IN  IF d = 0 THEN 0
             ELSE SpaceBacktrack(s, SkipWhile(s, d, Whitespace), d)

RECURSIVE findall(_, _)
findall(s, pos) ==
    IF pos > Len(s) THEN <<>>
    ELSE LET e == MatchEnd(s, pos)
         IN  IF e # 0
             THEN <<SubSeq(s, pos, e - 1)>> \o findall(s, e)
             ELSE findall(s, pos + 1)

\* s.split(c)
RECURSIVE split(_, _)
split(s, c) ==
    LET i == SkipWhile(s, 1, {x \in {s[k] : k \in 1..Len(s)} : x # c})
    IN  IF i > Len(s) THEN <<s>>
        ELSE <<SubSeq(s, 1, i - 1)>> \o split(SubSeq(s, i + 1, Len(s)), c)

StripAll(items) == [i \in 1..Len(items) |-> strip(items[i])]

NonEmpty(s) == s # <<>>

to_bullets(t) ==
    LET stripped == strip(t)
        numbered == findall(stripped, 1)
        lines    == SelectSeq(StripAll(split(stripped, "\n")), NonEmpty)
    IN  IF stripped = <<>> THEN <<>>
        ELSE IF numbered # <<>> THEN SelectSeq(StripAll(numbered), NonEmpty)
        ELSE IF Len(lines) > 1 THEN lines
        ELSE <<stripped>>

(***************************************************************************)
(* linebreak_to_html, list_html, build_html                                *)
(***************************************************************************)
\* the characters of an ASCII string literal
Chars(str) == [i \in 1..Len(str) |-> SubSeq(str, i, i)]

\* s.replace(c, new) for a one-character c
RECURSIVE replace(_, _, _)
replace(s, c, new) ==
    IF s = <<>> THEN <<>>
    ELSE (IF Head(s) = c THEN new ELSE <<Head(s)>>) \o replace(Tail(s), c, new)

\* html.escape(s), quote=True: "&" is replaced first
escape(s) ==
    LET s1 == replace(s, "&", Chars("&amp;"))
        s2 == replace(s1, "<", Chars("&lt;"))
        s3 == replace(s2, ">", Chars("&gt;"))
        s4 == replace(s3, "\"", Chars("&quot;"))
    IN  replace(s4, "'", Chars("&#x27;"))

\* the two steps in the other order: the inserted tags are escaped too
break_then_escape(t) == escape(replace(t, "\n", Chars("<br>")))

linebreak_to_html(t) == replace(escape(t), "\n", Chars("<br>"))

RECURSIVE RenderItems(_)
RenderItems(items) ==
    IF items = <<>> THEN <<>>
    ELSE Chars("<li>") \o linebreak_to_html(Head(items)) \o Chars("</li>")
             \o RenderItems(Tail(items))

list_html(t) ==
    Chars("<ul class=\"cell-list\">") \o RenderItems(to_bullets(t))
        \o Chars("</ul>")

\* the response and page cells in each other's place
table_row_swapped(row) ==
    Chars("      <tr>\n")
        \o Chars("        <td>") \o list_html(row[1]) \o Chars("</td>\n")
        \o Chars("        <td>") \o list_html(row[3]) \o Chars("</td>\n")
        \o Chars("        <td>") \o list_html(row[2]) \o Chars("</td>\n")
        \o Chars("      </tr>")

table_row(row) ==
    Chars("      <tr>\n")
        \o Chars("        <td>") \o list_html(row[1]) \o Chars("</td>\n")
        \o Chars("        <td>") \o list_html(row[2]) \o Chars("</td>\n")
        \o Chars("        <td>") \o list_html(row[3]) \o Chars("</td>\n")
        \o Chars("      </tr>")

\* chr(10).join(table_rows)
RECURSIVE JoinRows(_)
JoinRows(rs) ==
    IF rs = <<>> THEN <<>>
    ELSE IF Len(rs) = 1 THEN table_row(rs[1])
    ELSE table_row(rs[1]) \o <<"\n">> \o JoinRows(Tail(rs))

\* The template before the table (doctype, head, styles, hero section) and
\* after it (footer), none of which holds a table element, are one token each.
TemplateHead == <<"TEMPLATE_HEAD">>
TemplateTail == <<"TEMPLATE_TAIL">>

TableOpen ==
    Chars("        <table>\n          <thead>\n            <tr>\n")
        \o Chars("              <th>") \o <<"U5BE9", "U67E5", "U610F", "U898B">>
        \o Chars("</th>\n")
        \o Chars("              <th>") \o <<"U4FEE", "U6B63", "U60C5", "U5F62">>
        \o Chars("</th>\n")
        \o Chars("              <th>") \o <<"U9801", "U78BC">> \o Chars("</th>\n")
        \o Chars("            </tr>\n          </thead>\n          <tbody>\n")

TableClose == Chars("\n          </tbody>\n        </table>\n")

build_html(rs) ==
    TemplateHead \o TableOpen \o JoinRows(rs) \o TableClose \o TemplateTail

(***************************************************************************)
(* parse_rows.  csv_reader models csv.reader(f, delimiter="\t") over a     *)
(* file opened with newline="": the parser of the csv module, with the     *)
(* quote character '"', doubled quotes, and no strict mode.                *)
(***************************************************************************)
EOL == "EOL"

\* the characters the reader is fed: the lines of the file as its iterator
\* yields them (ended by "\n", "\r" or "\r\n"), each followed by EOL
RECURSIVE FeedLines(_, _)
FeedLines(t, i) ==
    IF i > Len(t) THEN <<>>
    ELSE IF t[i] = "\n" \/ (t[i] = "\r" /\ (i = Len(t) \/ t[i + 1] # "\n"))
         THEN <<t[i], EOL>> \o FeedLines(t, i + 1)
    ELSE IF i = Len(t) THEN <<t[i], EOL>>
    ELSE <<t[i]>> \o FeedLines(t, i + 1)

Parser(st, field, fields) == [state |-> st, field |-> field, fields |-> fields]

LineEnd(c) == IF c = EOL THEN "START_RECORD" ELSE "EAT_CRNL"

\* parse_process_char of the csv module
parse_process_char(m, c) ==
    LET saved == Append(m.fields, m.field)
        start ==
            IF c \in {"\n", "\r", EOL} THEN Parser(LineEnd(c), <<>>, saved)
            ELSE IF c = "\"" THEN Parser("IN_QUOTED_FIELD", m.field, m.fields)
            ELSE IF c = "\t" THEN Parser("START_FIELD", <<>>, saved)
            ELSE Parser("IN_FIELD", Append(m.field, c), m.fields)
    IN  CASE m.state = "START_RECORD" ->
               IF c = EOL THEN m
               ELSE IF c \in {"\n", "\r"} THEN Parser("EAT_CRNL", m.field, m.fields)
               ELSE start
          [] m.state = "START_FIELD" -> start
          [] m.state = "IN_FIELD" ->
               IF c \in {"\n", "\r", EOL} THEN Parser(LineEnd(c), <<>>, saved)
               ELSE IF c = "\t" THEN Parser("START_FIELD", <<>>, saved)
               ELSE Parser("IN_FIELD", Append(m.field, c), m.fields)
          [] m.state = "IN_QUOTED_FIELD" ->
               IF c = EOL THEN m
               ELSE IF c = "\"" THEN Parser("QUOTE_IN_QUOTED_FIELD", m.field, m.fields)
               ELSE Parser("IN_QUOTED_FIELD", Append(m.field, c), m.fields)
          [] m.state = "QUOTE_IN_QUOTED_FIELD" ->
               IF c = "\"" THEN Parser("IN_QUOTED_FIELD", Append(m.field, c), m.fields)
               ELSE IF c = "\t" THEN Parser("START_FIELD", <<>>, saved)
               ELSE IF c \in {"\n", "\r", EOL} THEN Parser(LineEnd(c), <<>>, saved)
               ELSE Parser("IN_FIELD", Append(m.field, c), m.fields)
          [] m.state = "EAT_CRNL" ->
               IF c = EOL THEN Parser("START_RECORD", m.field, m.fields) ELSE m

\* the records the reader yields: one each time a line's EOL leaves the parser
\* at START_RECORD, and a last one when the file ends inside a quoted field
RECURSIVE ReadRecords(_, _, _)
ReadRecords(cs, i, m) ==
    IF i > Len(cs)
    THEN IF m.state = "IN_QUOTED_FIELD" THEN <<Append(m.fields, m.field)>>
         ELSE <<>>
    ELSE LET n == parse_process_char(m, cs[i])
         IN  IF cs[i] = EOL /\ n.state = "START_RECORD"
             THEN <<n.fields>> \o ReadRecords(cs, i + 1, Parser("START_RECORD", <<>>, <<>>))
             ELSE ReadRecords(cs, i + 1, n)

csv_reader(t) == ReadRecords(FeedLines(t, 1), 1, Parser("START_RECORD", <<>>, <<>>))

\* the loop of parse_rows over the records
RECURSIVE CollectRows(_, _)
CollectRows(records, header_seen) ==
    IF records = <<>> THEN <<>>
    ELSE LET row  == Head(records)
             rest == Tail(records)
         IN  IF row = <<>> THEN CollectRows(rest, header_seen)
             ELSE IF ~header_seen THEN CollectRows(rest, TRUE)
             ELSE IF Len(row) < 2 THEN CollectRows(rest, header_seen)
             ELSE LET opinion       == strip(row[1])
                      response_full == strip(row[2])
                  IN  IF opinion # <<>> /\ response_full # <<>>
                      THEN <<<<opinion>> \o split_response_and_page(response_full)>>
                               \o CollectRows(rest, header_seen)
                      ELSE CollectRows(rest, header_seen)

\* the header line taken for a row
parse_rows_keeps_header(t) == CollectRows(csv_reader(t), TRUE)

parse_rows(t) == CollectRows(csv_reader(t), FALSE)

(***************************************************************************)
(* Specification of split_response_and_page called on a text.              *)
(***************************************************************************)
MainIdle ==
    /\ input = NoFile
    /\ rows = <<>>
    /\ html_content = <<>>
    /\ docs_dir = FALSE
    /\ output_file = NoFile
    /\ root_index = NoFile
    /\ stdout = <<>>
    /\ exit_status = "running"
    /\ fs_before = <<FALSE, NoFile, NoFile>>

mainVars == <<input, rows, html_content, docs_dir, output_file, root_index,
              stdout, exit_status, fs_before>>

SplitPieces == {<<"a">>, <<" ">>, <<FullStop>>, marker, <<"U9801">>}

InitSplit ==
    /\ pc = "call"
    /\ text \in Texts(SplitPieces, MaxSplitPieces)
    /\ out = NoResult
    /\ MainIdle

CallSplit ==
    /\ pc = "call"
    /\ out' = split_response_and_page(text)
    /\ pc' = "return"
    /\ UNCHANGED <<text, mainVars>>

NextSplit == CallSplit

SpecSplit == InitSplit /\ [][NextSplit]_vars

(***************************************************************************)
(* Specification of to_bullets called on a text.                           *)
(***************************************************************************)
BulletPieces ==
    {<<"1">>, <<"2">>, <<".">>, <<" ">>, <<"\n">>, <<"a">>,
     <<"1", ".", " ">>, <<"2", ".", " ">>}

InitBullets ==
    /\ pc = "call"
    /\ text \in Texts(BulletPieces, MaxBulletPieces)
    /\ out = NoResult
    /\ MainIdle

CallBullets ==
    /\ pc = "call"
    /\ out' = to_bullets(text)
    /\ pc' = "return"
    /\ UNCHANGED <<text, mainVars>>

NextBullets == CallBullets

SpecBullets == InitBullets /\ [][NextBullets]_vars

(***************************************************************************)
(* Specifications of linebreak_to_html and of parse_rows called on a text. *)
(***************************************************************************)
EscapePieces ==
    {<<"&">>, <<"<">>, <<">">>, <<"\"">>, <<"'">>, <<"\n">>, <<"a">>,
     Chars("<br>"), Chars("&lt;")}

InitEscape ==
    /\ pc = "call"
    /\ text \in Texts(EscapePieces, MaxEscapePieces)
    /\ out = NoResult
    /\ MainIdle

CallEscape ==
    /\ pc = "call"
    /\ out' = linebreak_to_html(text)
    /\ pc' = "return"
    /\ UNCHANGED <<text, mainVars>>

NextEscape == CallEscape

SpecEscape == InitEscape /\ [][NextEscape]_vars

FilePieces ==
    {<<"a">>, <<" ">>, <<"\t">>, <<"\n">>, <<"\"">>,
     <<"a", "\t", "b">>, <<"b", "\t", "a">>}

InitParse ==
    /\ pc = "call"
    /\ text \in Texts(FilePieces, MaxFilePieces)
    /\ out = NoResult
    /\ MainIdle

CallParse ==
    /\ pc = "call"
    /\ out' = parse_rows(text)
    /\ pc' = "return"
    /\ UNCHANGED <<text, mainVars>>

NextParse == CallParse

SpecParse == InitParse /\ [][NextParse]_vars

(***************************************************************************)
(* main, one action per statement.  A statement that touches the file      *)
(* system either succeeds or raises OSError, as the environment decides.   *)
(***************************************************************************)
OldDocument == <<"OLD_DOCUMENT">>

Generated == "Generated: docs/index.html"

\* the rows of the input files the runs are given
DataLines ==
    { Chars("a\tb"),
      Chars("x"),
      Chars(" \tb"),
      Chars("1. a 2. b\tc") \o <<FullStop>> \o marker \o <<"5", FullStop>>,
      Chars(" p<q \t'&' \"r\"\ts"),
      Chars("</li>\t") \o marker }

RECURSIVE FilesOf(_)
FilesOf(n) ==
    IF n = 0 THEN {Chars("h\n")}
    ELSE LET shorter == FilesOf(n - 1)
         IN  shorter \cup {f \o l \o <<"\n">> : f \in shorter, l \in DataLines}

InputFiles == {NoFile, <<>>} \cup FilesOf(MaxDataLines)

InitMain ==
    /\ pc = "parse_rows"
    /\ text = <<>>
    /\ out = NoResult
    /\ input \in InputFiles
    /\ rows = <<>>
    /\ html_content = <<>>
    /\ output_file \in {NoFile, OldDocument}
    /\ root_index \in {NoFile, OldDocument}
    /\ docs_dir \in IF output_file = NoFile THEN BOOLEAN ELSE {TRUE}
    /\ stdout = <<>>
    /\ exit_status = "running"
    /\ fs_before = <<docs_dir, output_file, root_index>>

Raise(exception) ==
    /\ pc' = "aborted"
    /\ exit_status' = exception

\* rows = parse_rows(INPUT_FILE)
ParseRows ==
    /\ pc = "parse_rows"
    /\ input # NoFile
    /\ rows' = parse_rows(input)
    /\ pc' = "check_rows"
    /\ UNCHANGED <<text, out, input, html_content, docs_dir, output_file,
                   root_index, stdout, exit_status, fs_before>>

ParseRowsNoFile ==
    /\ pc = "parse_rows"
    /\ input = NoFile
    /\ Raise("FileNotFoundError")
    /\ UNCHANGED <<text, out, input, rows, html_content, docs_dir, output_file,
                   root_index, stdout, fs_before>>

\* a check placed after the writes instead of before them
CheckRowsLate ==
    /\ pc = "check_rows"
    /\ IF rows = <<>>
       THEN /\ Raise("SystemExit: No rows found in review_responses.tsv")
            /\ docs_dir' = TRUE
            /\ output_file' = build_html(rows)
            /\ root_index' = build_html(rows)
       ELSE /\ pc' = "mkdir"
            /\ UNCHANGED <<exit_status, docs_dir, output_file, root_index>>
    /\ UNCHANGED <<text, out, input, rows, html_content, stdout, fs_before>>

\* the check left out
CheckRowsSkipped ==
    /\ pc = "check_rows"
    /\ pc' = "mkdir"
    /\ UNCHANGED <<text, out, input, rows, html_content, docs_dir, output_file,
                   root_index, stdout, exit_status, fs_before>>

\* if not rows: raise SystemExit(...)
CheckRows ==
    /\ pc = "check_rows"
    /\ IF rows = <<>>
       THEN Raise("SystemExit: No rows found in review_responses.tsv")
       ELSE pc' = "mkdir" /\ UNCHANGED exit_status
    /\ UNCHANGED <<text, out, input, rows, html_content, docs_dir, output_file,
                   root_index, stdout, fs_before>>

\* OUTPUT_DIR.mkdir(parents=True, exist_ok=True)
Mkdir ==
    /\ pc = "mkdir"
    /\ docs_dir' = TRUE
    /\ pc' = "build_html"
    /\ UNCHANGED <<text, out, input, rows, html_content, output_file,
                   root_index, stdout, exit_status, fs_before>>

MkdirFails ==
    /\ pc = "mkdir"
    /\ ~docs_dir
    /\ Raise("OSError: mkdir docs")
    /\ UNCHANGED <<text, out, input, rows, html_content, docs_dir, output_file,
                   root_index, stdout, fs_before>>

\* html_content = build_html(rows)
BuildHtml ==
    /\ pc = "build_html"
    /\ html_content' = build_html(rows)
    /\ pc' = "write_output"
    /\ UNCHANGED <<text, out, input, rows, docs_dir, output_file, root_index,
                   stdout, exit_status, fs_before>>

\* what a write_text that raises leaves of the file: the file as it was when
\* open() raised, an empty or a partly written file when write() raised
FailedWrite(old, new) == {old, <<>>, SubSeq(new, 1, Len(new) \div 2)}

\* OUTPUT_FILE.write_text(html_content, encoding="utf-8")
WriteOutputFile ==
    /\ pc = "write_output"
    /\ output_file' = html_content
    /\ pc' = "write_root"
    /\ UNCHANGED <<text, out, input, rows, html_content, docs_dir, root_index,
                   stdout, exit_status, fs_before>>

WriteOutputFileFails ==
    /\ pc = "write_output"
    /\ output_file' \in FailedWrite(output_file, html_content)
    /\ Raise("OSError: write docs/index.html")
    /\ UNCHANGED <<text, out, input, rows, html_content, docs_dir, root_index,
                   stdout, fs_before>>

\* the second write left out
WriteRootIndexSkipped ==
    /\ pc = "write_root"
    /\ pc' = "print"
    /\ UNCHANGED <<text, out, input, rows, html_content, docs_dir, output_file,
                   root_index, stdout, exit_status, fs_before>>

\* ROOT_INDEX.write_text(html_content, encoding="utf-8")
WriteRootIndex ==
    /\ pc = "write_root"
    /\ root_index' = html_content
    /\ pc' = "print"
    /\ UNCHANGED <<text, out, input, rows, html_content, docs_dir, output_file,
                   stdout, exit_status, fs_before>>

WriteRootIndexFails ==
    /\ pc = "write_root"
    /\ root_index' \in FailedWrite(root_index, html_content)
    /\ Raise("OSError: write index.html")
    /\ UNCHANGED <<text, out, input, rows, html_content, docs_dir, output_file,
                   stdout, fs_before>>

\* print(f"Generated: {OUTPUT_FILE}")
PrintGenerated ==
    /\ pc = "print"
    /\ stdout' = Append(stdout, Generated)
    /\ pc' = "done"
    /\ exit_status' = "0"
    /\ UNCHANGED <<text, out, input, rows, html_content, docs_dir, output_file,
                   root_index, fs_before>>

NextMain ==
    \/ ParseRows
    \/ ParseRowsNoFile
    \/ CheckRows
    \/ Mkdir
    \/ MkdirFails
    \/ BuildHtml
    \/ WriteOutputFile
    \/ WriteOutputFileFails
    \/ WriteRootIndex
    \/ WriteRootIndexFails
    \/ PrintGenerated

SpecMain == InitMain /\ [][NextMain]_vars

(***************************************************************************)
(* Claims about split_response_and_page.                                   *)
(***************************************************************************)
Last(s) == s[Len(s)]

LastMarker(s) == SetMax(Occurrences(s, marker))

BeforeLastMarker(s) == SubSeq(s, 1, LastMarker(s) - 1)

AfterLastMarker(s) == SubSeq(s, LastMarker(s) + Len(marker), Len(s))

\* res is src with the whitespace around it removed and then the full stops
\* at its end removed: src is whitespace, res, full stops, whitespace
TrimmedThenStopped(src, res) ==
    \E a \in 1..(Len(src) + 1) : \E b \in (a - 1)..Len(src) : \E c \in b..Len(src) :
        /\ res = SubSeq(src, a, b)
        /\ \A k \in 1..(a - 1) : src[k] \in Whitespace
        /\ \A k \in (b + 1)..c : src[k] = FullStop
        /\ \A k \in (c + 1)..Len(src) : src[k] \in Whitespace
        /\ res # <<>> =>
              /\ Head(res) \notin Whitespace
              /\ Last(res) # FullStop
              /\ c = b => Last(res) \notin Whitespace

\* res is src with the whitespace around it removed
Trimmed(src, res) ==
    \E a \in 1..(Len(src) + 1) : \E b \in (a - 1)..Len(src) :
        /\ res = SubSeq(src, a, b)
        /\ \A k \in 1..(a - 1) : src[k] \in Whitespace
        /\ \A k \in (b + 1)..Len(src) : src[k] \in Whitespace
        /\ res # <<>> => (Head(res) \notin Whitespace /\ Last(res) \notin Whitespace)

\* the texts R + full stop + marker + P + full stop: the marker at i, a full stop before it
\* and a full stop at the end
RoundTripAt(s, i) ==
    /\ i >= 2
    /\ s[i - 1] = FullStop
    /\ Len(s) >= i + Len(marker)
    /\ Last(s) = FullStop

RoundTripR(s, i) == SubSeq(s, 1, i - 2)

RoundTripP(s, i) == SubSeq(s, i + Len(marker), Len(s) - 1)

\* C3 as stated: split at the last marker, response the part before it less
\* its trailing full stops (trimmed or not), page the part after it less its
\* trailing full stops and trimmed (no whitespace at either end, no full
\* stop at its end), and R + full stop + marker + P + full stop gives (R, P)
\* for every R and P.
C3_SplitEveryRAndP ==
    (pc = "return" /\ contains(text, marker)) =>
        /\ \/ out[1] = rstrip_chars(BeforeLastMarker(text), FullStop)
           \/ TrimmedThenStopped(BeforeLastMarker(text), out[1])
        /\ strip(out[2]) = out[2]
        /\ out[2] # <<>> => Last(out[2]) # FullStop
        /\ \A i \in Occurrences(text, marker) :
              RoundTripAt(text, i) =>
                  out = <<RoundTripR(text, i), RoundTripP(text, i)>>

\* C3 amended: response is the part before the last marker, trimmed and then
\* less its trailing full stops; page is the part after it, trimmed and then
\* less its trailing full stops, or the placeholder when that is empty; and
\* R + full stop + marker + P + full stop gives (R, P) when R neither starts with whitespace
\* nor ends in a full stop and P is not empty, holds no marker, and neither
\* starts with whitespace nor ends in a full stop.
C3_SplitAtLastMarker ==
    (pc = "return" /\ contains(text, marker)) =>
        /\ TrimmedThenStopped(BeforeLastMarker(text), out[1])
        /\ \/ TrimmedThenStopped(AfterLastMarker(text), out[2]) /\ out[2] # <<>>
           \/ TrimmedThenStopped(AfterLastMarker(text), <<>>) /\ out[2] = placeholder
        /\ Head(out[2]) \notin Whitespace
        /\ Last(out[2]) # FullStop
        /\ LET i == LastMarker(text)
               R == RoundTripR(text, i)
               P == RoundTripP(text, i)
           IN  ( /\ RoundTripAt(text, i)
                 /\ R # <<>> => (Head(R) \notin Whitespace /\ Last(R) # FullStop)
                 /\ P # <<>>
                 /\ Head(P) \notin Whitespace
                 /\ Last(P) # FullStop )
               => out = <<R, P>>

C3_Witness ==
    /\ pc = "return"
    /\ text = <<"a", FullStop>> \o marker \o <<"a", FullStop>>
    /\ out = <<<<"a">>, <<"a">>>>

\* C7: the page is never empty; it is the placeholder when the marker is
\* absent (the response then being the whole text, trimmed) and when the part
\* after the last marker is empty after trimming; and so every row that
\* parse_rows returns for a file whose response field is the text has a
\* page that is not empty.
C7_PageNeverEmpty ==
    pc = "return" =>
        /\ out[2] # <<>>
        /\ ~contains(text, marker) =>
              /\ out[2] = placeholder
              /\ Trimmed(text, out[1])
        /\ (contains(text, marker) /\ strip(AfterLastMarker(text)) = <<>>) =>
              out[2] = placeholder
        /\ LET rs == parse_rows(Chars("h\na\t") \o text)
           IN  \A i \in 1..Len(rs) : rs[i][3] # <<>>

C7_Witness ==
    /\ pc = "return"
    /\ text = <<"a">> \o marker \o <<" ">>
    /\ out = <<<<"a">>, placeholder>>
    /\ parse_rows(Chars("h\na\t") \o text) = <<<<<<"a">>, <<"a">>, placeholder>>>>

(***************************************************************************)
(* Claims about linebreak_to_html.                                         *)
(***************************************************************************)
Entities ==
    { <<Chars("&amp;"), "&">>, <<Chars("&lt;"), "<">>, <<Chars("&gt;"), ">">>,
      <<Chars("&quot;"), "\"">>, <<Chars("&#x27;"), "'">>,
      <<Chars("<br>"), "\n">> }

\* reading the output back: each entity gives its character, each <br> a
\* newline, every other character itself
RECURSIVE Unescape(_, _)
Unescape(s, i) ==
    IF i > Len(s) THEN <<>>
    ELSE LET hits == {e \in Entities : StartsAt(s, i, e[1])}
         IN  IF hits = {} THEN <<s[i]>> \o Unescape(s, i + 1)
             ELSE LET e == CHOOSE x \in hits : TRUE
                  IN  <<e[2]>> \o Unescape(s, i + Len(e[1]))

Count(s, c) == Cardinality({i \in 1..Len(s) : s[i] = c})

\* C5: the reserved characters are escaped first and the newlines replaced
\* by <br> after that: in the output every "<" opens an inserted <br>, one
\* for each newline of the text, every "&" opens an entity, no newline is
\* left, and the output read back is the text.
C5_EscapeThenBreak ==
    pc = "return" =>
        /\ \A i \in 1..Len(out) :
              /\ out[i] = "<" => StartsAt(out, i, Chars("<br>"))
              /\ out[i] = "&" =>
                    \E e \in Entities : e[2] # "\n" /\ StartsAt(out, i, e[1])
              /\ out[i] # "\n"
        /\ Count(out, "<") = Count(text, "\n")
        /\ Unescape(out, 1) = text

C5_Witness ==
    /\ pc = "return"
    /\ text = <<"<", "&", "\n">>
    /\ out = Chars("&lt;&amp;<br>")

(***************************************************************************)
(* Claims about parse_rows.                                                *)
(***************************************************************************)
Lines(t) == split(t, "\n")

\* the lines after the first non-empty line
AfterHeader(t) ==
    LET ls == Lines(t)
        h  == SkipWhile(ls, 1, {<<>>})
    IN  SubSeq(ls, h + 1, Len(ls))

\* at least two tab-separated fields, the first two non-empty when trimmed
IsDataLine(line) ==
    LET f == split(line, "\t")
    IN  Len(f) >= 2 /\ strip(f[1]) # <<>> /\ strip(f[2]) # <<>>

DataLinesOf(t) == SelectSeq(AfterHeader(t), IsDataLine)

RowOf(line) ==
    LET f == split(line, "\t")
    IN  <<strip(f[1])>> \o split_response_and_page(strip(f[2]))

\* C6 as stated: the first non-empty line is discarded, every later line
\* with two non-empty first fields gives one row, in order, the others are
\* skipped, and the fields of the rows are trimmed.
C6_OneRowPerLine ==
    pc = "return" =>
        LET ls == DataLinesOf(text)
        IN  /\ Len(out) = Len(ls)
            /\ \A i \in 1..Len(out) :
                  /\ out[i][1] = strip(split(ls[i], "\t")[1])
                  /\ \A k \in 1..3 : strip(out[i][k]) = out[i][k]

\* a field that begins with a double quote is read as a quoted field
QuotedField(t) ==
    \E i \in 1..Len(t) : t[i] = "\"" /\ (i = 1 \/ t[i - 1] \in {"\t", "\n"})

\* C6 amended: for an input in which no field begins with a double quote,
\* the first non-empty line is discarded and every later line with two
\* non-empty first fields gives, in order, the row (opinion trimmed,
\* split_response_and_page of the trimmed response); the other lines are
\* skipped.
C6_OneRowPerUnquotedLine ==
    (pc = "return" /\ ~QuotedField(text)) =>
        LET ls == DataLinesOf(text)
        IN  out = [i \in 1..Len(ls) |-> RowOf(ls[i])]

C6_Witness ==
    /\ pc = "return"
    /\ text = Chars("a\na\tb\nb\ta")
    /\ out = << <<<<"a">>, <<"b">>, placeholder>>,
                <<<<"b">>, <<"a">>, placeholder>> >>

(***************************************************************************)
(* Claims about main.                                                      *)
(***************************************************************************)
FileSystem == <<docs_dir, output_file, root_index>>

NoValidRows == input # NoFile /\ parse_rows(input) = <<>>

\* C1: an input without valid rows makes main abort with SystemExit, and
\* in that run the directory is not created, no file is written and nothing
\* is printed.
C1_EmptyDatasetAborts ==
    NoValidRows =>
        /\ FileSystem = fs_before
        /\ stdout = <<>>
        /\ \/ pc \in {"parse_rows", "check_rows"}
           \/ /\ pc = "aborted"
              /\ exit_status = "SystemExit: No rows found in review_responses.tsv"

C1_Witness ==
    /\ pc = "aborted"
    /\ input = Chars("h\n")
    /\ exit_status = "SystemExit: No rows found in review_responses.tsv"
    /\ fs_before = <<TRUE, OldDocument, OldDocument>>

\* C2: a run that completes has written build_html(rows) to both files, and
\* "Generated" is printed only once both writes have happened.
C2_BothWrittenThenPrinted ==
    /\ pc = "done" =>
          /\ html_content = build_html(rows)
          /\ output_file = html_content
          /\ root_index = html_content
          /\ stdout = <<Generated>>
          /\ exit_status = "0"
    /\ stdout # <<>> =>
          /\ pc = "done"
          /\ output_file = html_content
          /\ root_index = html_content

C2_Witness ==
    /\ pc = "done"
    /\ fs_before = <<FALSE, NoFile, OldDocument>>
    /\ output_file = root_index
    /\ Len(rows) = 2

\* reading the document back
\* the first place at or after from where m stands in s, 0 when there is none
FirstAt(s, m, from) ==
    LET hits == {i \in from..Len(s) : s[i] = m[1] /\ StartsAt(s, i, m)}
    IN  IF hits = {} THEN 0 ELSE CHOOSE i \in hits : \A j \in hits : i <= j

RECURSIVE Elements(_, _, _, _)
Elements(s, open, close, from) ==
    LET i == FirstAt(s, open, from)
        j == IF i = 0 THEN 0 ELSE FirstAt(s, close, i + Len(open))
    IN  IF i = 0 \/ j = 0 THEN <<>>
        ELSE <<SubSeq(s, i + Len(open), j - 1)>>
                 \o Elements(s, open, close, j + Len(close))

TableBody(doc) == Elements(doc, Chars("<tbody>"), Chars("</tbody>"), 1)[1]

CellItems(cell) ==
    LET items == Elements(cell, Chars("<li>"), Chars("</li>"), 1)
    IN  [i \in 1..Len(items) |-> Unescape(items[i], 1)]

RowCells(tr) ==
    LET cells == Elements(tr, Chars("<td>"), Chars("</td>"), 1)
    IN  [i \in 1..Len(cells) |-> CellItems(cells[i])]

TableRows(doc) ==
    LET trs == Elements(TableBody(doc), Chars("<tr>"), Chars("</tr>"), 1)
    IN  [i \in 1..Len(trs) |-> RowCells(trs[i])]

\* C8: the table body of the document a run generates has one row for each
\* row of parse_rows, in order, each with three cells: the lists that
\* to_bullets builds from the opinion, the response and the page.
C8_OneTableRowPerRow ==
    pc = "done" =>
        /\ rows = parse_rows(input)
        /\ root_index = output_file
        /\ TableRows(output_file) =
              [i \in 1..Len(rows) |->
                  <<to_bullets(rows[i][1]), to_bullets(rows[i][2]),
                    to_bullets(rows[i][3])>>]

C8_Witness ==
    /\ pc = "done"
    /\ Len(rows) = 2
    /\ rows[1] # rows[2]
    /\ TableRows(root_index)[2][1] = <<Chars("1. a"), Chars("2. b")>>
    /\ TableRows(root_index)[1][1] = <<Chars("p<q")>>

Rewritten == output_file = html_content /\ root_index = html_content

Untouched == output_file = fs_before[2] /\ root_index = fs_before[3]

\* C10 as stated: a run that has ended has rewritten both files with the
\* new document or has left both as they were.
C10_NoPartialOutput ==
    pc \in {"done", "aborted"} => (Rewritten \/ Untouched)

\* C10 amended: a run that completes has rewritten both files with the same
\* document; a run that aborts before the first write (no input file, no
\* rows, no directory) has left both as they were; a run that aborts in a
\* write has not rewritten index.html, and when it aborts in the second
\* write docs/index.html alone is rewritten.
C10_PartialOutputOnlyFromWrites ==
    /\ pc = "done" => Rewritten
    /\ ( /\ pc = "aborted"
         /\ exit_status \notin {"OSError: write docs/index.html",
                                "OSError: write index.html"} ) => Untouched
    /\ (pc = "aborted" /\ exit_status = "OSError: write docs/index.html") =>
          root_index = fs_before[3]
    /\ (pc = "aborted" /\ exit_status = "OSError: write index.html") =>
          /\ output_file = html_content
          /\ root_index # html_content

C10_Witness ==
    /\ pc = "aborted"
    /\ exit_status = "OSError: write index.html"
    /\ fs_before = <<TRUE, OldDocument, OldDocument>>
    /\ output_file = html_content
    /\ root_index = OldDocument

(***************************************************************************)
(* Claims about to_bullets.                                                *)
(***************************************************************************)
RECURSIVE Concat(_)
Concat(items) ==
    IF items = <<>> THEN <<>> ELSE Head(items) \o Concat(Tail(items))

IsInk(c) == c \notin Whitespace

Ink(s) == SelectSeq(s, IsInk)

ClauseStarts(s) == {i \in 1..Len(s) : ClauseMarkerAt(s, i)}

\* the end of the clause that starts at p: the character before the next
\* clause marker, or the last character of the text
ClauseEnd(s, p) ==
    LET later == {q \in ClauseStarts(s) : q > p}
    IN  IF later = {} THEN Len(s)
        ELSE (CHOOSE q \in later : \A r \in later : q <= r) - 1

\* the clause at p is "<integer>. <content>" followed by one space or one
\* newline (by nothing when it is the last): the content is not empty, has
\* no newline and neither starts nor ends with whitespace
ClauseWellFormed(s, p) ==
    LET e       == ClauseEnd(s, p)
        d       == NumberDot(s, p)
        last    == IF e = Len(s) THEN e ELSE e - 1
        content == SubSeq(s, d + 1, last)
    IN  /\ s[d] = " "
        /\ e < Len(s) => s[e] \in {" ", "\n"}
        /\ content # <<>>
        /\ strip(content) = content
        /\ \A i \in 1..Len(content) : content[i] # "\n"

NumberedClauses(s) ==
    /\ 1 \in ClauseStarts(s)
    /\ \A p \in ClauseStarts(s) : ClauseWellFormed(s, p)

NthClauseStart(s, n) ==
    CHOOSE p \in ClauseStarts(s) :
        Cardinality({q \in ClauseStarts(s) : q <= p}) = n

ClauseItems(s) ==
    [n \in 1..Cardinality(ClauseStarts(s)) |->
        LET p == NthClauseStart(s, n)
        IN  strip(SubSeq(s, p, ClauseEnd(s, p)))]

\* C4: a text made of k >= 1 numbered clauses "<integer>. <content>",
\* separated by spaces or by newlines, gives exactly k items in source
\* order, item i being the i-th clause: its number and its content up to
\* the next clause marker or the end of the text.
C4_OneItemPerClause ==
    (pc = "return" /\ NumberedClauses(text)) => out = ClauseItems(text)

\* the same with the clauses separated by spaces only
SpaceSeparated(s) == \A i \in 1..Len(s) : s[i] # "\n"

OneItemPerSpacedClause ==
    (pc = "return" /\ NumberedClauses(text) /\ SpaceSeparated(text))
        => out = ClauseItems(text)

\* C9: to_bullets loses no content: the items, concatenated in order, hold
\* the non-whitespace characters of the input, each once and in source order.
C9_NoContentLost ==
    pc = "return" => Ink(Concat(out)) = Ink(text)

====
